---- MODULE Spec2Model ----
(***************************************************************************)
(* Playlist-Organizer backend: the /analyze batch controller               *)
(* (backend/main.py, analyze_playlist.event_generator) and the per-track   *)
(* resolution cascade (backend/logic.py, process_track and its helpers).   *)
(***************************************************************************)
EXTENDS Integers, Sequences, FiniteSets, TLC

\* ------------------------------------------------------------------ bounds
\* Largest number of tracks in one analyzed batch.
MaxTracks == 5
\* Largest tempo given to normalize_bpm, in beats per minute.
MaxBpm == 400
\* Largest level of the sounding bins of a pitch-class profile.
MaxLevel == 2

\* ------------------------------------------------------- program constants
\* sem = asyncio.Semaphore(4)
SemWidth == 4

VARIABLES
    mode,            \* which source the request names: "tracks", "link", "none"
    total,           \* len(to_analyze) once setup has run, else 0
    gen,             \* position of event_generator
    events,          \* the NDJSON lines yielded so far, in order
    completed_count, \* completed_count of event_generator
    session,         \* the batch's aiohttp.ClientSession: "none", "open", "closed"
    closes,          \* how many times the batch session has been closed
    permits,         \* sem._value
    at,              \* at[p]: how many track tasks are at position p
    doneQ            \* as_completed's queue: the outcomes of the finished tasks
                     \* the generator has not taken yet, oldest first

batchVars == <<mode, total, gen, events, completed_count, session, closes,
               permits, at, doneQ>>

\* One call of process_track(track_metadata, session), followed step by step.
VARIABLES
    track_metadata,  \* the input dict
    session_given,   \* TRUE when the caller passed a session
    local_session,   \* local_session of process_track
    rsession,        \* the session the call uses: "none", "open", "closed"
    rpc,             \* position of the call
    trace,           \* the collaborators that have returned, with their outcomes
    attempt,         \* attempt of fetch_preview_url's retry loop
    responses,       \* the responses to fetch_preview_url's search requests
    sleeps,          \* the delays fetch_preview_url has slept, in order
    preview_url,     \* what fetch_preview_url returned ("" for None)
    data,            \* data["results"] of the last parsed search response
    tmp,             \* the temporary payload file: "none", "exists", "deleted"
    result           \* the dict the call returned (EmptyDict before)

resolveVars == <<track_metadata, session_given, local_session, rsession, rpc, trace,
                 attempt, responses, sleeps, preview_url, data, tmp, result>>

\* One call of a pure helper of logic.py, from its argument to its return.
VARIABLES
    arg,             \* the argument of the call
    ret,             \* what the call returned
    fpc              \* position of the call: "unused", "called", "returned", ...

fnVars == <<arg, ret, fpc>>

vars == <<batchVars, resolveVars, fnVars>>

\* ----------------------------------------------------------------- events
\* One yielded line: its type, and for an update its percent and the status of
\* the result it carries.
Event(type, percent, status) == [type |-> type, percent |-> percent, status |-> status]

\* round(k / n * 100): to the nearest integer, a tie to the even one.
PercentRounded(k, n) ==
    LET q == (k * 100) \div n
        r == (k * 100) % n
    IN  IF 2 * r > n THEN q + 1
        ELSE IF 2 * r < n THEN q
        ELSE IF q % 2 = 0 THEN q ELSE q + 1

\* percent = int((completed_count / total) * 100)
Percent(k, n) == (k * 100) \div n

\* ------------------------------------------------------------- dictionaries
\* A Python dict is a function from its keys to their values.
EmptyDict == [k \in {} |-> ""]

Has(d, k) == k \in DOMAIN d

\* {**a, **b}: the keys of both, b's value where both have the key.
Merge(a, b) == [k \in (DOMAIN a) \cup (DOMAIN b) |-> IF k \in DOMAIN b THEN b[k] ELSE a[k]]

\* The result's status as a consumer reads it; "absent" when it has no such key.
StatusOf(d) == IF Has(d, "status") THEN d["status"] ELSE "absent"

\* ------------------------------------------------------------ normalize_bpm
\* BPM values are carried in tenths of a beat per minute (1200 is 120.0).
RECURSIVE DoubleUp(_)
DoubleUp(t) == IF t < 900 THEN DoubleUp(2 * t) ELSE t

\* The same loop for a value of t / d tenths.
RECURSIVE DoubleUpOver(_, _)
DoubleUpOver(t, d) == IF t < 900 * d THEN DoubleUpOver(2 * t, d) ELSE t

\* A second loop that never runs.
HalveNot(t, d) == <<t, d>>

\* t / d after the halvings: d is the power of two the value was divided by.
RECURSIVE HalveDown(_, _)
HalveDown(t, d) == IF t > 1800 * d THEN HalveDown(t, 2 * d) ELSE <<t, d>>

\* round(x, 1) of x = n/d tenths: to the nearest tenth, a tie to the even one.
RoundTenths(n, d) ==
    LET q == n \div d
        r == n % d
    IN  IF 2 * r > d THEN q + 1
        ELSE IF 2 * r < d THEN q
        ELSE IF q % 2 = 0 THEN q ELSE q + 1

normalize_bpm(bpm) ==
    IF bpm <= 0 THEN 0
    ELSE LET h == HalveDown(DoubleUp(bpm), 1) IN RoundTenths(h[1], h[2])

\* normalize_bpm of a float that is not a whole number of tenths: t / d tenths,
\* d a power of two. Doubling and halving a float are exact, and round(x, 1)
\* rounds the exact value.
NormalizeFloat(t, d) ==
    IF t <= 0 THEN 0
    ELSE LET h == HalveDown(DoubleUpOver(t, d), d) IN RoundTenths(h[1], h[2])

\* ------------------------------------------------------------ fetch_soundnet
\* A response of the descriptor API: kind "raise" (transport, timeout or parse
\* failure), "status" (not 200), "notempo" (200 without a tempo field) or
\* "data" (200 with tempo, and camelot / energy when present; camelot "" and
\* energy -1 stand for an absent field), or "malformed" (200 with a tempo or
\* an energy that is no number, which raises at lines 62-64 and is caught at
\* line 67).
SoundnetResp(kind, tempo, camelot, energy) ==
    [kind |-> kind, tempo |-> tempo, camelot |-> camelot, energy |-> energy]

\* A lookup that builds descriptors from every 200 response.
FetchSoundnetUnchecked(resp) ==
    IF resp.kind \in {"data", "notempo"}
    THEN [k \in {"bpm", "key", "energy", "source"} |->
            CASE k = "bpm"    -> normalize_bpm(resp.tempo)
              [] k = "key"    -> IF resp.camelot # "" THEN resp.camelot ELSE "?"
              [] k = "energy" -> IF resp.energy >= 0 THEN resp.energy ELSE 50
              [] k = "source" -> "soundnet"]
    ELSE EmptyDict

\* What fetch_soundnet returns: the descriptors, or EmptyDict for None.
fetch_soundnet(resp) ==
    IF resp.kind = "data"
    THEN [k \in {"bpm", "key", "energy", "source"} |->
            CASE k = "bpm"    -> normalize_bpm(resp.tempo)
              [] k = "key"    -> IF resp.camelot # "" THEN resp.camelot ELSE "?"
              [] k = "energy" -> IF resp.energy >= 0 THEN resp.energy ELSE 50
              [] k = "source" -> "soundnet"]
    ELSE EmptyDict

\* ------------------------------------------------------------- chroma_to_key
PitchClasses == 0..11

major_template == [i \in PitchClasses |-> IF i \in {0, 2, 4, 5, 7, 9, 11} THEN 1 ELSE 0]
minor_template == [i \in PitchClasses |-> IF i \in {0, 2, 3, 5, 7, 8, 10} THEN 1 ELSE 0]

major_camelot ==
    [r \in PitchClasses |->
        <<"8B", "3B", "10B", "5B", "12B", "7B", "2B", "9B", "4B", "11B", "6B", "1B">>[r + 1]]
minor_camelot ==
    [r \in PitchClasses |->
        <<"5A", "12A", "7A", "2A", "9A", "4A", "11A", "6A", "1A", "8A", "3A", "10A">>[r + 1]]

\* np.roll(template, root): element i moves to position (i + root) mod 12.
Roll(template, root) == [i \in PitchClasses |-> template[(i + 12 - root) % 12]]

RECURSIVE SumTo(_, _)
SumTo(x, i) == IF i < 0 THEN 0 ELSE x[i] + SumTo(x, i - 1)
Sum(x) == SumTo(x, 11)
Dot(x, y) == Sum([i \in PitchClasses |-> x[i] * y[i]])

\* np.corrcoef(x, y)[0, 1], the Pearson correlation cov / sqrt(var * var), kept
\* exact as num / sqrt(den2). With a constant x or y den2 is 0 and numpy
\* returns nan.
Corr(x, y) ==
    [num  |-> 12 * Dot(x, y) - Sum(x) * Sum(y),
     den2 |-> (12 * Dot(x, x) - Sum(x) * Sum(x)) * (12 * Dot(y, y) - Sum(y) * Sum(y))]

\* max_corr = -1
MinusOne == [num |-> -1, den2 |-> 1]

\* A comparison that also lets an equal correlation in.
GreaterOrEqual(a, b) ==
    IF a.den2 = 0 \/ b.den2 = 0 THEN FALSE
    ELSE IF a.den2 = b.den2 THEN a.num >= b.num
    ELSE IF a.num >= 0 /\ b.num < 0 THEN TRUE
    ELSE IF a.num < 0 /\ b.num >= 0 THEN FALSE
    ELSE IF a.num >= 0 THEN a.num * a.num * b.den2 >= b.num * b.num * a.den2
    ELSE a.num * a.num * b.den2 <= b.num * b.num * a.den2

\* corr > max_corr on floats: false whenever one side is nan.
Greater(a, b) ==
    IF a.den2 = 0 \/ b.den2 = 0 THEN FALSE
    ELSE IF a.den2 = b.den2 THEN a.num > b.num
    ELSE IF a.num >= 0 /\ b.num < 0 THEN TRUE
    ELSE IF a.num < 0 /\ b.num >= 0 THEN FALSE
    ELSE IF a.num >= 0 THEN a.num * a.num * b.den2 > b.num * b.num * a.den2
    ELSE a.num * a.num * b.den2 < b.num * b.num * a.den2

\* The 24 candidates in the order of the two loops: the major roots 0..11,
\* then the minor roots 0..11, each with its rotated template and its label.
KeyCandidates ==
    [n \in 1..24 |->
        IF n <= 12
        THEN [rotated |-> Roll(major_template, n - 1), label |-> major_camelot[n - 1]]
        ELSE [rotated |-> Roll(minor_template, n - 13), label |-> minor_camelot[n - 13]]]

\* Lines 177-194 from candidate n on, with the best candidate so far.
RECURSIVE Scan(_, _, _)
Scan(chroma_sum, n, best) ==
    IF n > 24 THEN best
    ELSE LET corr == Corr(chroma_sum, KeyCandidates[n].rotated) IN
         Scan(chroma_sum, n + 1,
              IF Greater(corr, best.max_corr)
              THEN [max_corr |-> corr, best_key |-> KeyCandidates[n].label]
              ELSE best)

\* chroma_to_key of a chromagram whose rows sum to chroma_sum.
chroma_to_key(chroma_sum) ==
    Scan(chroma_sum, 1, [max_corr |-> MinusOne, best_key |-> "Unknown"]).best_key

\* ---------------------------------------------------------- analyze_audio_file
\* kind "ok": the clip decoded and was analyzed; "fail": librosa raised.
analyze_audio_file(kind, tempo, key, energy) ==
    IF kind = "ok"
    THEN [bpm |-> normalize_bpm(tempo), key |-> key, energy |-> energy]
    ELSE [bpm |-> 0, key |-> "???", energy |-> 0]

\* --------------------------------------------- process_track: its five returns
RemoteResult(md, soundnet_data) == Merge(md, soundnet_data)

NoPreviewResult(md) ==
    Merge(md,
          [k \in {"bpm", "status"} |-> IF k = "bpm" THEN 0 ELSE "no_preview"])

FourFields(bpm, key, energy, status) ==
    [k \in {"bpm", "key", "energy", "status"} |->
        CASE k = "bpm" -> bpm [] k = "key" -> key
          [] k = "energy" -> energy [] k = "status" -> status]

AnalyzedResult(md, analysis) ==
    Merge(md,
          FourFields(analysis.bpm, analysis.key, analysis.energy, "analyzed_audio"))

ErrorResult(md) == Merge(md, FourFields(0, "?", 0, "error"))

FailedDownloadResult(md) ==
    Merge(md, FourFields(0, "?", 0, "failed_download"))

\* ===================================================== the batch controller
\* The track dict event_generator builds from a playlist item.
PlaylistTrack ==
    [k \in {"id", "name", "artist", "duration_ms", "image", "uri", "bpm", "key", "energy"} |->
        CASE k = "duration_ms" -> 200000
          [] k = "bpm" -> 0
          [] k = "key" -> "?"
          [] k = "energy" -> 0
          [] OTHER -> k]

\* The positions of a track task (bounded_process, then process_track): waiting
\* for a permit; in the stagger delay; awaiting the lookup's response, the
\* search, the download's response, the payload, the analysis.
Positions == {"queued", "stagger", "lookup", "locate", "download", "read", "analyze"}

\* The tasks between permit acquisition and the end of their resolution.
InFlight == at["stagger"] + at["lookup"] + at["locate"] + at["download"]
            + at["read"] + at["analyze"]

BatchStart ==
    /\ mode \in {"tracks", "link", "none"}
    /\ total = 0
    /\ gen = "start"
    /\ events = <<>>
    /\ completed_count = 0
    /\ session = "none"
    /\ closes = 0
    /\ permits = SemWidth
    /\ at = [p \in Positions |-> 0]
    /\ doneQ = <<>>

\* The generator leaves `async with aiohttp.ClientSession()`: the session closes.
CloseSession ==
    /\ session' = IF session = "open" THEN "closed" ELSE session
    /\ closes' = IF session = "open" THEN closes + 1 ELSE closes

\* Lines 103-139: the first step of event_generator, up to its first yield:
\* the progress line of the mode, or the error line when the request names no
\* source.
Begin ==
    /\ gen = "start"
    /\ \/ /\ mode = "tracks"
          /\ events' = Append(events, Event("progress", 0, ""))
          /\ gen' = "announced"
       \/ /\ mode = "link"
          /\ events' = Append(events, Event("progress", 0, ""))
          /\ gen' = "fetching"
       \/ /\ mode = "none"
          /\ events' = Append(events, Event("error", 0, ""))
          /\ gen' = "finished"
    /\ UNCHANGED <<mode, total, completed_count, session, closes, permits, at, doneQ>>
    /\ UNCHANGED resolveVars
    /\ UNCHANGED fnVars

\* A fetch whose failure is reported without ending the run.
FetchCarriesOn ==
    /\ gen = "fetching"
    /\ \/ events' = Append(events, Event("error", 0, ""))
       \/ events' = Append(events, Event("progress", 0, ""))
    /\ gen' = "parsing"
    /\ UNCHANGED <<mode, total, completed_count, session, closes, permits, at, doneQ>>
    /\ UNCHANGED resolveVars
    /\ UNCHANGED fnVars

\* Lines 118-124: the playlist is fetched and the second progress line is
\* yielded; a failing catalog call lands in the handler of line 178.
Fetch ==
    /\ gen = "fetching"
    /\ \/ /\ events' = Append(events, Event("error", 0, ""))
          /\ gen' = "finished"
       \/ /\ events' = Append(events, Event("progress", 0, ""))
          /\ gen' = "parsing"
    /\ UNCHANGED <<mode, total, completed_count, session, closes, permits, at, doneQ>>
    /\ UNCHANGED resolveVars
    /\ UNCHANGED fnVars

\* Lines 146-164 for n tracks: the session is opened and as_completed starts
\* one task per track, each asking for a permit; the generator awaits the first
\* to finish. With no track the loop body never runs: the session is closed
\* again and the done line is yielded at once.
StartTasks(n) ==
    /\ total' = n
    /\ IF n > 0
       THEN /\ session' = "open"
            /\ at' = [at EXCEPT !["queued"] = n]
            /\ gen' = "streaming"
            /\ UNCHANGED <<events, closes>>
       ELSE /\ session' = "closed"
            /\ closes' = closes + 1
            /\ events' = Append(events, Event("done", 0, ""))
            /\ gen' = "finished"
            /\ at' = at
    /\ UNCHANGED <<mode, completed_count, permits, doneQ>>

\* Lines 127-136, then 146-164: the fetched items are parsed into to_analyze
\* (an item lacking a field raises into the handler of line 178) and the
\* tasks are started.
Parse ==
    /\ gen = "parsing"
    /\ \/ /\ events' = Append(events, Event("error", 0, ""))
          /\ gen' = "finished"
          /\ UNCHANGED <<mode, total, completed_count, session, closes, permits, at, doneQ>>
       \/ \E n \in 0..MaxTracks : StartTasks(n)
    /\ UNCHANGED resolveVars
    /\ UNCHANGED fnVars

\* Lines 111, then 146-164: the request's own tracks (at least one, line 108)
\* are taken as to_analyze and the tasks are started.
FanOut ==
    /\ gen = "announced"
    /\ \E n \in 1..MaxTracks : StartTasks(n)
    /\ UNCHANGED resolveVars
    /\ UNCHANGED fnVars

\* What only the generator writes.
genVars == <<mode, total, gen, events, completed_count>>

\* A call that takes whatever session it uses for its own.
LocalAlways(given) == TRUE

\* logic.py 237-240: local_session is True only when no session was passed.
LocalSession(given) == ~given

\* What the semaphore's __aexit__ does with the permit of a task that ends.
Release(p) == p + 1

\* A task at position `from` ends (returns a result of status `how`, or raises
\* before the try block): `async with sem` releases its permit and
\* as_completed's callback queues the outcome for the generator. The task was
\* called with the batch's session (main.py 159), and the finally block of
\* logic.py 280-282 closes the session only when it is the call's own.
Finish(from, how) ==
    /\ at[from] > 0
    /\ at' = [at EXCEPT ![from] = @ - 1]
    /\ permits' = Release(permits)
    /\ doneQ' = IF gen = "streaming" THEN Append(doneQ, how) ELSE doneQ
    /\ IF how # "raised" /\ LocalSession(TRUE)
       THEN CloseSession
       ELSE UNCHANGED <<session, closes>>

\* A task moves from one position to the next, keeping its permit.
Goto(from, to) ==
    /\ at[from] > 0
    /\ at' = [at EXCEPT ![from] = @ - 1, ![to] = @ + 1]
    /\ UNCHANGED <<permits, doneQ, session, closes>>

\* A gate that admits every task, whatever the permits left.
AdmitsAlways(p) == TRUE

\* Whether `async with sem` admits a task now.
Admits(p) == p > 0

\* Line 155: a waiting task gets a permit.
Acquire ==
    /\ at["queued"] > 0
    /\ Admits(permits)
    /\ permits' = permits - 1
    /\ at' = [at EXCEPT !["queued"] = @ - 1, !["stagger"] = @ + 1]
    /\ UNCHANGED <<genVars, doneQ, session, closes>>
    /\ UNCHANGED resolveVars
    /\ UNCHANGED fnVars

\* Lines 157-159 and logic.py 233-244: the stagger delay ends and process_track
\* starts. A track dict without 'artist' or 'name' raises KeyError (only a
\* request's own tracks can lack them); otherwise the lookup request is issued.
\* On a closed session the request raises at once inside fetch_soundnet, which
\* returns None, and the search starts.
Stagger ==
    /\ \/ /\ mode = "tracks"
          /\ Finish("stagger", "raised")
       \/ Goto("stagger", IF session = "open" THEN "lookup" ELSE "locate")
    /\ UNCHANGED genVars
    /\ UNCHANGED resolveVars
    /\ UNCHANGED fnVars

\* logic.py 244-250: the lookup's response arrives.
Lookup ==
    /\ \/ /\ session = "open"
          /\ \E camelot \in {"", "8A"}, energy \in {-1, 70} :
                Finish("lookup", StatusOf(RemoteResult(PlaylistTrack,
                          fetch_soundnet(SoundnetResp("data", 1200, camelot, energy)))))
       \/ Goto("lookup", "locate")
    /\ UNCHANGED genVars
    /\ UNCHANGED resolveVars
    /\ UNCHANGED fnVars

\* logic.py 250-257: fetch_preview_url returns.
Locate ==
    /\ \/ Finish("locate", StatusOf(NoPreviewResult(PlaylistTrack)))
       \/ /\ session = "open"
          /\ Goto("locate", "download")
    /\ UNCHANGED genVars
    /\ UNCHANGED resolveVars
    /\ UNCHANGED fnVars

\* logic.py 257-260: the download's response arrives.
Download ==
    /\ \/ Finish("download", StatusOf(ErrorResult(PlaylistTrack)))
       \/ /\ session = "open"
          /\ \/ Finish("download", StatusOf(FailedDownloadResult(PlaylistTrack)))
             \/ Goto("download", "read")
    /\ UNCHANGED genVars
    /\ UNCHANGED resolveVars
    /\ UNCHANGED fnVars

\* logic.py 260-265: the payload is read and written to the temporary file.
Read ==
    /\ \/ Finish("read", StatusOf(ErrorResult(PlaylistTrack)))
       \/ /\ session = "open"
          /\ Goto("read", "analyze")
    /\ UNCHANGED genVars
    /\ UNCHANGED resolveVars
    /\ UNCHANGED fnVars

\* logic.py 265-275: the executor's analysis returns.
Analyze ==
    /\ \E kind \in {"ok", "fail"} :
          Finish("analyze", StatusOf(AnalyzedResult(PlaylistTrack,
                                analyze_audio_file(kind, 1200, "8B", 12))))
    /\ UNCHANGED genVars
    /\ UNCHANGED resolveVars
    /\ UNCHANGED fnVars

\* main.py 163-174: the generator takes the next finished task. A result is
\* counted and yielded as an update; a task that raised raises out of
\* `await future`, through the session's exit, into the handler of line 178.
Emit ==
    /\ gen = "streaming"
    /\ doneQ # <<>>
    /\ IF Head(doneQ) = "raised"
       THEN /\ CloseSession
            /\ events' = Append(events, Event("error", 0, ""))
            /\ gen' = "finished"
            /\ doneQ' = <<>>
            /\ UNCHANGED completed_count
       ELSE /\ completed_count' = completed_count + 1
            /\ events' = Append(events,
                  Event("update", Percent(completed_count + 1, total), Head(doneQ)))
            /\ doneQ' = Tail(doneQ)
            /\ UNCHANGED <<gen, session, closes>>
    /\ UNCHANGED <<mode, total, permits, at>>
    /\ UNCHANGED resolveVars
    /\ UNCHANGED fnVars

\* main.py 163, 176: as_completed is exhausted, the session closes, done is yielded.
Done ==
    /\ gen = "streaming"
    /\ completed_count = total
    /\ CloseSession
    /\ events' = Append(events, Event("done", 0, ""))
    /\ gen' = "finished"
    /\ UNCHANGED <<mode, total, completed_count, permits, at, doneQ>>
    /\ UNCHANGED resolveVars
    /\ UNCHANGED fnVars

\* The consumer disconnects while the generator is suspended: the generator is
\* cancelled or closed there, and leaving the session's block closes it.
Abandon ==
    /\ gen \in {"announced", "fetching", "parsing", "streaming"}
    /\ CloseSession
    /\ gen' = "aborted"
    /\ doneQ' = <<>>
    /\ UNCHANGED <<mode, total, events, completed_count, permits, at>>
    /\ UNCHANGED resolveVars
    /\ UNCHANGED fnVars

\* ============================================== one call of process_track
\* A retry loop that runs once more.
RangeOfFour == 3 + 1

\* for attempt in range(3)
Attempts == 3
\* abs(itunes_dur - duration_ms) < 4000
StrictTolerance == 4000
\* abs(itunes_dur - duration_ms) < 10000
RelaxedTolerance == 10000

\* Track names are sequences of characters.
Alnum == {"S", "o", "n", "g", " "}
\* re.sub(r'[^a-zA-Z0-9 ]', '', s)
clean_str(str) == SelectSeq(str, LAMBDA c : c \in Alnum)

\* The input dicts: always a name and a pass-through uri; an artist, an id and
\* a duration when present; `prior` says what an earlier analysis left in the
\* dict: nothing, the playlist parser's defaults, or a whole earlier result.
MkTrack(name, hasArtist, hasId, hasDuration, prior) ==
    LET base == [k \in {"name", "uri"} |-> IF k = "name" THEN name ELSE "spotify:track:1"]
        a == IF hasArtist THEN Merge(base, [artist |-> "Artist"]) ELSE base
        b == IF hasId THEN Merge(a, [id |-> "id1"]) ELSE a
        c == IF hasDuration THEN Merge(b, [duration_ms |-> 200000]) ELSE b
    IN  CASE prior = "nothing"  -> c
          [] prior = "defaults" -> Merge(c, [bpm |-> 0, key |-> "?", energy |-> 0])
          [] prior = "result"   -> Merge(c, FourFields(0, "?", 0, "no_preview"))

\* A candidate of a search response: its trackTimeMillis (-1 when the field is
\* absent) and its previewUrl ("MISSING" when the field is absent).
Candidate(ms, url) == [trackTimeMillis |-> ms, previewUrl |-> url]

CandidateLists ==
    { <<Candidate(203500, "u1"), Candidate(209000, "u2")>>,
      <<Candidate(209000, "u2"), Candidate(203500, "u1")>>,
      <<Candidate(230000, "u3"), Candidate(209999, "u2")>>,
      <<Candidate(209000, "u2"), Candidate(204000, "u5")>>,
      <<Candidate(230000, "u3"), Candidate(210000, "u6")>>,
      <<Candidate(-1, "u4")>>,
      <<Candidate(203500, "MISSING")>>,
      <<>> }

Abs(x) == IF x < 0 THEN 0 - x ELSE x

\* result.get('trackTimeMillis', 0)
TimeOf(c) == IF c.trackTimeMillis < 0 THEN 0 ELSE c.trackTimeMillis

\* The first candidate whose duration is within tol of duration_ms, 0 if none.
FirstWithin(results, duration_ms, tol) ==
    LET hits == {i \in 1..Len(results) : Abs(TimeOf(results[i]) - duration_ms) < tol}
    IN  IF hits = {} THEN 0 ELSE CHOOSE i \in hits : \A j \in hits : i <= j

\* A selection in one pass: the first candidate within the relaxed tolerance.
SelectedSinglePass(results, duration_ms) ==
    LET relaxed == IF duration_ms # 0 THEN FirstWithin(results, duration_ms, RelaxedTolerance) ELSE 0
    IN  IF relaxed # 0 THEN relaxed
        ELSE IF Len(results) > 0 THEN 1 ELSE 0

\* Lines 123-141: the candidate whose previewUrl is returned, 0 for `return None`.
\* duration_ms is 0 when the caller gave none.
Selected(results, duration_ms) ==
    LET strict == IF duration_ms # 0 THEN FirstWithin(results, duration_ms, StrictTolerance) ELSE 0
        relaxed == IF duration_ms # 0 THEN FirstWithin(results, duration_ms, RelaxedTolerance) ELSE 0
    IN  IF strict # 0 THEN strict
        ELSE IF relaxed # 0 THEN relaxed
        ELSE IF Len(results) > 0 THEN 1 ELSE 0

\* track_metadata.get('duration_ms'), 0 for None
DurationOf(md) == IF Has(md, "duration_ms") THEN md["duration_ms"] ELSE 0

\* The whole state of the batch when only one call is followed.
BatchIdle ==
    /\ mode = "none"
    /\ total = 0
    /\ gen = "unused"
    /\ events = <<>>
    /\ completed_count = 0
    /\ session = "none"
    /\ closes = 0
    /\ permits = SemWidth
    /\ at = [p \in Positions |-> 0]
    /\ doneQ = <<>>

ResolveStart ==
    /\ \E name \in {<<"S", "o", "n", "g">>, <<"S", "!", "n", "g">>},
          hasArtist \in BOOLEAN, hasId \in BOOLEAN, hasDuration \in BOOLEAN,
          prior \in {"nothing", "defaults", "result"} :
            track_metadata = MkTrack(name, hasArtist, hasId, hasDuration, prior)
    /\ session_given \in BOOLEAN
    /\ local_session = FALSE
    /\ rsession = IF session_given THEN "open" ELSE "none"
    /\ rpc = "called"
    /\ trace = <<>>
    /\ attempt = 0
    /\ responses = <<>>
    /\ sleeps = <<>>
    /\ preview_url = ""
    /\ data = <<>>
    /\ tmp = "none"
    /\ result = EmptyDict

Returned(call, out) == [call |-> call, out |-> out]

\* One response to a search request of fetch_preview_url: the attempt it
\* belongs to, the request ("search", or "cleaned" for the fallback) and what
\* came back.
Response(a, request, kind) == [attempt |-> a, request |-> request, kind |-> kind]

\* One sleep of fetch_preview_url: the attempt it follows and its seconds.
Sleep(a, delay) == [attempt |-> a, delay |-> delay]

\* `return r` inside the try: the finally block closes a session the call made.
Return(r) ==
    /\ result' = r
    /\ rpc' = "returned"
    /\ rsession' = IF local_session THEN "closed" ELSE rsession

\* Lines 233-244: the call starts. The subscripts of lines 233-234 raise
\* KeyError on a dict without the key, before the try block; otherwise a
\* session is made when none was passed and fetch_soundnet is called with
\* track_metadata.get('id').
Call ==
    /\ rpc = "called"
    /\ IF Has(track_metadata, "artist") /\ Has(track_metadata, "name")
       THEN /\ local_session' = LocalSession(session_given)
            /\ rsession' = "open"
            /\ rpc' = "lookup"
       ELSE /\ rpc' = "raised"
            /\ UNCHANGED <<local_session, rsession>>
    /\ UNCHANGED <<track_metadata, session_given, trace, attempt, responses, sleeps,
                   preview_url, data, tmp, result>>
    /\ UNCHANGED batchVars
    /\ UNCHANGED fnVars

\* Lines 244-250: fetch_soundnet returns. Descriptors end the call; None starts
\* fetch_preview_url, whose first search request goes out.
LookupReturns ==
    /\ rpc = "lookup"
    /\ \E kind \in {"raise", "status", "notempo", "data"},
          tempo \in {0, 700, 1200}, camelot \in {"", "8A"}, energy \in {-1, 70} :
         LET soundnet_data == fetch_soundnet(SoundnetResp(kind, tempo, camelot, energy)) IN
         IF DOMAIN soundnet_data # {}
         THEN /\ trace' = Append(trace, Returned("fetch_soundnet", "data"))
              /\ Return(RemoteResult(track_metadata, soundnet_data))
         ELSE /\ trace' = Append(trace, Returned("fetch_soundnet", "None"))
              /\ rpc' = "search"
              /\ UNCHANGED <<result, rsession>>
    /\ UNCHANGED <<track_metadata, session_given, local_session, attempt, responses,
                   sleeps, preview_url, data, tmp>>
    /\ UNCHANGED batchVars
    /\ UNCHANGED fnVars

\* Lines 250-257: fetch_preview_url returns v ("" for None). Without a preview
\* the call ends; with one the download request goes out.
LocateReturns(v) ==
    /\ preview_url' = v
    /\ IF v = ""
       THEN /\ trace' = Append(trace, Returned("fetch_preview_url", "None"))
            /\ Return(NoPreviewResult(track_metadata))
       ELSE /\ trace' = Append(trace, Returned("fetch_preview_url", "url"))
            /\ rpc' = "download"
            /\ UNCHANGED <<result, rsession>>

\* Lines 102-103, 145-146: the loop sleeps `delay` seconds before `continue`.
SleepThenContinue(delay) ==
    /\ sleeps' = Append(sleeps, Sleep(attempt, delay))
    /\ rpc' = "sleep"
    /\ UNCHANGED <<trace, preview_url, result, rsession>>

\* A back-off that does not grow with the attempt.
FlatDelay(a) == 1

\* The delay slept after a rate-limit response to attempt a: 2 ** attempt.
RateLimitDelay(a) == 2 ^ a

\* Lines 120-141 on a parsed response: the selected candidate's previewUrl is
\* returned; a candidate without the field raises KeyError into line 143.
Choose(results) ==
    LET k == Selected(results, DurationOf(track_metadata)) IN
    /\ data' = results
    /\ IF k = 0 THEN LocateReturns("") /\ sleeps' = sleeps
       ELSE IF results[k].previewUrl = "MISSING" THEN SleepThenContinue(1)
       ELSE LocateReturns(results[k].previewUrl) /\ sleeps' = sleeps

\* Lines 99-141: the response to the search request of this attempt arrives.
Search ==
    /\ rpc = "search"
    /\ \/ /\ responses' = Append(responses, Response(attempt, "search", "raise"))
          /\ SleepThenContinue(1)
          /\ data' = data
       \/ /\ responses' = Append(responses, Response(attempt, "search", "ratelimit"))
          /\ SleepThenContinue(RateLimitDelay(attempt))
          /\ data' = data
       \/ /\ responses' = Append(responses, Response(attempt, "search", "status"))
          /\ LocateReturns("")
          /\ sleeps' = sleeps
          /\ data' = data
       \/ /\ responses' = Append(responses, Response(attempt, "search", "empty"))
          /\ data' = <<>>
          /\ IF clean_str(track_metadata["name"]) # track_metadata["name"]
             THEN /\ rpc' = "fallback"
                  /\ UNCHANGED <<trace, preview_url, result, rsession, sleeps>>
             ELSE LocateReturns("") /\ sleeps' = sleeps
       \/ /\ responses' = Append(responses, Response(attempt, "search", "results"))
          /\ \E results \in CandidateLists : Choose(results)
    /\ UNCHANGED <<track_metadata, session_given, local_session, attempt, tmp>>
    /\ UNCHANGED batchVars
    /\ UNCHANGED fnVars

\* Lines 116-141: the response to the cleaned search arrives. Only a 200
\* replaces data; any other status leaves the empty result set in place.
Fallback ==
    /\ rpc = "fallback"
    /\ \/ /\ responses' = Append(responses, Response(attempt, "cleaned", "raise"))
          /\ SleepThenContinue(1)
          /\ data' = data
       \/ /\ \E kind \in {"ratelimit", "status", "empty"} :
                responses' = Append(responses, Response(attempt, "cleaned", kind))
          /\ LocateReturns("")
          /\ sleeps' = sleeps
          /\ data' = data
       \/ /\ responses' = Append(responses, Response(attempt, "cleaned", "results"))
          /\ \E results \in CandidateLists : Choose(results)
    /\ UNCHANGED <<track_metadata, session_given, local_session, attempt, tmp>>
    /\ UNCHANGED batchVars
    /\ UNCHANGED fnVars

\* Lines 97, 148: the sleep ends; the loop goes to its next attempt, or is
\* exhausted and returns None.
Wake ==
    /\ rpc = "sleep"
    /\ attempt' = attempt + 1
    /\ IF attempt + 1 < Attempts
       THEN /\ rpc' = "search"
            /\ UNCHANGED <<trace, preview_url, result, rsession>>
       ELSE LocateReturns("")
    /\ UNCHANGED <<track_metadata, session_given, local_session, responses, sleeps,
                   data, tmp>>
    /\ UNCHANGED batchVars
    /\ UNCHANGED fnVars

\* Lines 257-259: the download's response arrives. A raising request is caught
\* at line 276; a status other than 200 falls through to line 284; on 200 the
\* temporary file is created (which can raise as well).
DownloadReturns ==
    /\ rpc = "download"
    /\ \/ /\ trace' = Append(trace, Returned("get", "raise"))
          /\ Return(ErrorResult(track_metadata))
          /\ tmp' = tmp
       \/ /\ trace' = Append(trace, Returned("get", "status"))
          /\ Return(FailedDownloadResult(track_metadata))
          /\ tmp' = tmp
       \/ /\ trace' = Append(trace, Returned("get", "200"))
          /\ \/ /\ tmp' = "exists"
                /\ rpc' = "read"
                /\ UNCHANGED <<result, rsession>>
             \/ /\ tmp' = tmp
                /\ Return(ErrorResult(track_metadata))
    /\ UNCHANGED <<track_metadata, session_given, local_session, attempt, responses,
                   sleeps, preview_url, data>>
    /\ UNCHANGED batchVars
    /\ UNCHANGED fnVars

\* Lines 260-265: the payload is read and written; either can raise, which is
\* caught at line 276. Then the analysis is handed to the executor.
ReadReturns ==
    /\ rpc = "read"
    /\ \/ /\ \E out \in {"raise", "write_raise"} : trace' = Append(trace, Returned("read", out))
          /\ Return(ErrorResult(track_metadata))
       \/ /\ trace' = Append(trace, Returned("read", "bytes"))
          /\ rpc' = "analyze"
          /\ UNCHANGED <<result, rsession>>
    /\ UNCHANGED <<track_metadata, session_given, local_session, attempt, responses,
                   sleeps, preview_url, data, tmp>>
    /\ UNCHANGED batchVars
    /\ UNCHANGED fnVars

\* Lines 265-275: analyze_audio_file returns (it catches its own failures), the
\* temporary file is unlinked and the analyzed result is returned.
AnalysisReturns ==
    /\ rpc = "analyze"
    /\ \E kind \in {"ok", "fail"}, tempo \in {700, 1200} :
         LET analysis == analyze_audio_file(kind, tempo, "8B", 12) IN
         /\ trace' = Append(trace, Returned("analyze_audio_file", kind))
         /\ Return(AnalyzedResult(track_metadata, analysis))
    /\ tmp' = "deleted"
    /\ UNCHANGED <<track_metadata, session_given, local_session, attempt, responses,
                   sleeps, preview_url, data>>
    /\ UNCHANGED batchVars
    /\ UNCHANGED fnVars

ResolveNext ==
    \/ Call \/ LookupReturns \/ Search \/ Fallback \/ Wake
    \/ DownloadReturns \/ ReadReturns \/ AnalysisReturns

\* No pure helper is followed on its own.
FnIdle ==
    /\ arg = <<>>
    /\ ret = <<>>
    /\ fpc = "unused"

ResolveInit == BatchIdle /\ ResolveStart /\ FnIdle

SpecResolve == ResolveInit /\ [][ResolveNext]_vars

\* No call of process_track is followed in the batch specification.
ResolveIdle ==
    /\ track_metadata = EmptyDict
    /\ session_given = FALSE
    /\ local_session = FALSE
    /\ rsession = "none"
    /\ rpc = "unused"
    /\ trace = <<>>
    /\ attempt = 0
    /\ responses = <<>>
    /\ sleeps = <<>>
    /\ preview_url = ""
    /\ data = <<>>
    /\ tmp = "none"
    /\ result = EmptyDict

Init == BatchStart /\ ResolveIdle /\ FnIdle

Next ==
    \/ Begin \/ Fetch \/ Parse \/ FanOut \/ Emit \/ Done \/ Abandon
    \/ Acquire \/ Stagger \/ Lookup \/ Locate \/ Download \/ Read \/ Analyze

Spec == Init /\ [][Next]_vars

\* ================================================= one call of fetch_soundnet
SoundnetResponses ==
    {SoundnetResp(kind, tempo, camelot, energy) :
        kind \in {"raise", "status", "notempo", "data", "malformed"},
        tempo \in {0, 450, 700, 1200, 1287, 2000, 3700},
        camelot \in {"", "8A", "11B"},
        energy \in {-1, 0, 50, 70}}

SoundnetStart ==
    /\ arg \in SoundnetResponses
    /\ ret = <<>>
    /\ fpc = "called"

\* Lines 46-69: the request's outcome is turned into the return value.
FetchSoundnetReturns ==
    /\ fpc = "called"
    /\ ret' = fetch_soundnet(arg)
    /\ fpc' = "returned"
    /\ arg' = arg
    /\ UNCHANGED batchVars
    /\ UNCHANGED resolveVars

SoundnetInit == BatchIdle /\ ResolveIdle /\ SoundnetStart

SoundnetNext == FetchSoundnetReturns

SpecSoundnet == SoundnetInit /\ [][SoundnetNext]_vars

\* ================================================== one call of normalize_bpm
\* The tempos given to normalize_bpm: every multiple of an eighth of a beat per
\* minute from -2 to MaxBpm, as <<t, d>> for t / d tenths.
Tempos == {<<10 * m, 8>> : m \in -16..(8 * MaxBpm)}

NormalizeStart ==
    /\ arg \in Tempos
    /\ ret = <<>>
    /\ fpc = "called"

\* Lines 30-35: the call returns.
NormalizeReturns ==
    /\ fpc = "called"
    /\ ret' = NormalizeFloat(arg[1], arg[2])
    /\ fpc' = "returned"
    /\ arg' = arg
    /\ UNCHANGED batchVars
    /\ UNCHANGED resolveVars

\* Lines 30-35 again: the returned value is normalized once more.
Renormalize ==
    /\ fpc = "returned"
    /\ arg' = <<ret, 1>>
    /\ ret' = normalize_bpm(ret)
    /\ fpc' = "renormalized"
    /\ UNCHANGED batchVars
    /\ UNCHANGED resolveVars

NormalizeInit == BatchIdle /\ ResolveIdle /\ NormalizeStart

NormalizeNext == NormalizeReturns \/ Renormalize

SpecNormalize == NormalizeInit /\ [][NormalizeNext]_vars

\* ================================================== one call of chroma_to_key
\* The pitch-class profiles: every set of sounding pitch classes (none and all
\* twelve included), the sounding bins at one level from 1 to MaxLevel and the
\* others at 0.
Profiles ==
    {[i \in PitchClasses |-> level * sounding[i]] :
        sounding \in [PitchClasses -> {0, 1}], level \in 1..MaxLevel}

ChromaStart ==
    /\ arg \in Profiles
    /\ ret = <<>>
    /\ fpc = "called"

\* Lines 157-196: the call returns best_key.
ChromaToKeyReturns ==
    /\ fpc = "called"
    /\ ret' = chroma_to_key(arg)
    /\ fpc' = "returned"
    /\ arg' = arg
    /\ UNCHANGED batchVars
    /\ UNCHANGED resolveVars

ChromaInit == BatchIdle /\ ResolveIdle /\ ChromaStart

ChromaNext == ChromaToKeyReturns

SpecChroma == ChromaInit /\ [][ChromaNext]_vars

\* ================================================================ properties
OfType(type) == SelectSeq(events, LAMBDA e : e.type = type)

\* The batch's setup succeeded and its generator ran to its end.
BatchRan == gen = "finished" /\ session = "closed"

\* C1: at every moment at most K = 4 track tasks are between acquiring a
\* permit and the end of their resolution, for any batch size (also N > K)
\* and under every interleaving.
C1_AtMostKInFlight == InFlight <= SemWidth

\* C1 witness: a batch larger than the pool with all four permits taken and a
\* task still waiting for one.
C1_PoolFull == total > SemWidth /\ InFlight = SemWidth /\ at["queued"] > 0

\* C2: a batch of N tracks whose setup succeeded yields exactly N update
\* events with non-decreasing percent, then exactly one done event, last.
C2_NUpdatesThenDone ==
    BatchRan =>
        /\ Len(OfType("update")) = total
        /\ \A i, j \in 1..Len(OfType("update")) :
              i <= j => OfType("update")[i].percent <= OfType("update")[j].percent
        /\ Len(OfType("done")) = 1
        /\ events[Len(events)].type = "done"

\* C3: a failure while one track is processed (the resolution itself raising
\* included) does not abort the batch: the other tracks still get their update
\* events and the done event is still emitted.
C3_FailureDoesNotAbort ==
    BatchRan =>
        /\ Len(OfType("done")) = 1
        /\ Len(OfType("error")) = 0
        /\ Len(OfType("update")) >= total - 1

\* ------------------------------------------------- one call of process_track
WellFormed == Has(track_metadata, "artist") /\ Has(track_metadata, "name")

\* The collaborators that have returned so far, by name.
ReturnedCalls == {trace[i].call : i \in 1..Len(trace)}

Outcome(call) == LET i == CHOOSE i \in 1..Len(trace) : trace[i].call = call IN trace[i].out

\* The collaborator the call is waiting for, if any.
Pending ==
    CASE rpc = "lookup" -> {"fetch_soundnet"}
      [] rpc \in {"search", "fallback", "sleep"} -> {"fetch_preview_url"}
      [] rpc = "download" -> {"get"}
      [] rpc = "read" -> {"read"}
      [] rpc = "analyze" -> {"analyze_audio_file"}
      [] OTHER -> {}

Called == ReturnedCalls \cup Pending

\* The call ended without descriptors: no preview, a failed download or a
\* failed analysis.
Unresolved ==
    /\ rpc = "returned"
    /\ "fetch_soundnet" \in ReturnedCalls /\ Outcome("fetch_soundnet") = "None"
    /\ ~("analyze_audio_file" \in ReturnedCalls /\ Outcome("analyze_audio_file") = "ok")

FailureStatuses == {"no_preview", "error", "failed_download"}

\* C4: process_track never raises to its caller, whatever the lookup, the
\* search, the download and the analysis do, and every failure is encoded in
\* the status of the result it returns.
C4_ReturnsWithFailureInStatus ==
    WellFormed =>
        /\ rpc # "raised"
        /\ Unresolved => StatusOf(result) \in FailureStatuses

\* C5: the lookup is called only for a track with an id; descriptors end the
\* call at once, before any search, download or analysis; the search runs only
\* after a skipped or missed lookup, the download only after a located preview,
\* the analyzer only after a successful download.
C5_CascadeOrder ==
    /\ "fetch_soundnet" \in Called => Has(track_metadata, "id")
    /\ ("fetch_soundnet" \in ReturnedCalls /\ Outcome("fetch_soundnet") = "data") =>
          (rpc = "returned" /\ Called = {"fetch_soundnet"})
    /\ "fetch_preview_url" \in Called =>
          ("fetch_soundnet" \notin Called
             \/ ("fetch_soundnet" \in ReturnedCalls /\ Outcome("fetch_soundnet") = "None"))
    /\ "get" \in Called =>
          ("fetch_preview_url" \in ReturnedCalls /\ Outcome("fetch_preview_url") = "url")
    /\ "analyze_audio_file" \in Called =>
          ("read" \in ReturnedCalls /\ Outcome("read") = "bytes")

ResultFields == {"bpm", "key", "energy", "status"}

\* C6: every result process_track returns has bpm, key, energy and status and
\* carries every pass-through field of the input unchanged; an unresolved
\* track has bpm = 0 and a status that explains why.
C6_CompleteResult ==
    rpc = "returned" =>
        /\ ResultFields \subseteq DOMAIN result
        /\ \A k \in (DOMAIN track_metadata) \ (ResultFields \cup {"source"}) :
              Has(result, k) /\ result[k] = track_metadata[k]
        /\ Unresolved => (result["bpm"] = 0 /\ StatusOf(result) \in FailureStatuses)

\* C7: a located preview whose download fails in transport (the request
\* raises, or the response is not a success) ends the call with status
\* failed_download, bpm 0, key "?", energy 0, and the analyzer is not run.
C7_DownloadFailure ==
    (rpc = "returned" /\ "get" \in ReturnedCalls /\ Outcome("get") \in {"raise", "status"}) =>
        /\ StatusOf(result) = "failed_download"
        /\ result["bpm"] = 0 /\ result["key"] = "?" /\ result["energy"] = 0
        /\ "analyze_audio_file" \notin Called

\* C8: after a download, a failing analyzer gives status error with bpm 0,
\* key "?", energy 0, and a succeeding one gives status analyzed_audio: the
\* status tells a failed analysis from a successful one.
C8_AnalysisStatus ==
    (rpc = "returned" /\ "analyze_audio_file" \in ReturnedCalls) =>
        IF Outcome("analyze_audio_file") = "fail"
        THEN /\ StatusOf(result) = "error"
             /\ result["bpm"] = 0 /\ result["key"] = "?" /\ result["energy"] = 0
        ELSE StatusOf(result) = "analyzed_audio"

\* ------------------------------------------------------- fetch_preview_url
LocateReturned == "fetch_preview_url" \in ReturnedCalls

Kinds(set) == {i \in 1..Len(responses) : responses[i].kind \in set}

\* C9: when every search response is a rate-limit response, fetch_preview_url
\* makes exactly three attempts, sleeps after each of them a delay that doubles
\* from one attempt to the next, and returns None without raising.
C9_RateLimitedThrice ==
    (LocateReturned /\ Kinds({"ratelimit"}) = 1..Len(responses)) =>
        /\ Len(responses) = 3
        /\ \A i \in 1..3 : responses[i].attempt = i - 1 /\ responses[i].request = "search"
        /\ Len(sleeps) = 3
        /\ \A i \in 1..3 : sleeps[i].attempt = i - 1 /\ sleeps[i].delay > 0
        /\ \A i \in 1..2 : sleeps[i + 1].delay = 2 * sleeps[i].delay
        /\ Outcome("fetch_preview_url") = "None" /\ preview_url = ""
        /\ rpc = "returned"

\* C9 witness: fetch_preview_url has returned after three rate-limit responses.
C9_ThreeRateLimits ==
    /\ LocateReturned
    /\ Len(responses) = 3
    /\ Kinds({"ratelimit"}) = 1..3

\* Some sleep follows the attempt of response i.
PausedAfter(i) == \E j \in 1..Len(sleeps) : sleeps[j].attempt = responses[i].attempt

\* C10 as stated: every failed search attempt other than a rate-limit response
\* is followed by a pause and a retry within the shared budget of three
\* attempts, after which fetch_preview_url returns None.
C10_EveryFailureRetried ==
    /\ \A i \in Kinds({"raise", "status"}) : PausedAfter(i)
    /\ attempt <= 3
    /\ \A i \in 1..Len(responses) : responses[i].attempt < 3
    /\ (LocateReturned /\ attempt = 3) => (preview_url = "" /\ rpc = "returned")

\* C10 amended: a search attempt that raises is followed by a 1 second pause
\* and retried; a search response with a status other than 200, 403 and 429
\* ends fetch_preview_url at once with None, without pause or retry; raising
\* and rate-limited attempts share one budget of three attempts, after which
\* fetch_preview_url returns None without raising.
C10_RaisesRetriedStatusEnds ==
    /\ \A i \in Kinds({"raise"}) :
          \E j \in 1..Len(sleeps) : sleeps[j] = Sleep(responses[i].attempt, 1)
    /\ \A i \in Kinds({"status"}) :
          /\ i = Len(responses)
          /\ ~PausedAfter(i)
          /\ LocateReturned /\ preview_url = "" /\ rpc = "returned"
    /\ attempt <= 3
    /\ Cardinality({i \in 1..Len(responses) : responses[i].request = "search"}) <= 3
    /\ \A i \in 1..Len(responses) : responses[i].attempt < 3
    /\ (LocateReturned /\ attempt = 3) => (preview_url = "" /\ rpc = "returned")

\* C10 witness: the budget is used up by a mix of raising and rate-limited
\* attempts and fetch_preview_url has returned None.
C10_MixedBudgetExhausted ==
    /\ LocateReturned /\ attempt = 3 /\ preview_url = ""
    /\ Kinds({"raise"}) # {} /\ Kinds({"ratelimit"}) # {}

\* The candidates of the parsed response whose duration differs from the
\* requested one by less than tol milliseconds.
Within(tol) ==
    {i \in 1..Len(data) : Abs(TimeOf(data[i]) - DurationOf(track_metadata)) < tol}

Least(set) == CHOOSE i \in set : \A j \in set : i <= j

\* The candidate the tiers name: the first one less than 4 seconds off if
\* there is any in the list, else the first one less than 10 seconds off,
\* else the first one; the first one when no duration was requested.
Tiered ==
    IF DurationOf(track_metadata) # 0 /\ Within(4000) # {} THEN Least(Within(4000))
    ELSE IF DurationOf(track_metadata) # 0 /\ Within(10000) # {} THEN Least(Within(10000))
    ELSE 1

LastResponse == responses[Len(responses)]

BatchExited == gen \in {"finished", "aborted"}

\* C12: the one session of the batch stays open for the track tasks while the
\* batch streams and is closed exactly once when the batch exits, whether all
\* tracks completed, a task's failure ended the batch or the consumer
\* disconnected; no track task closes it, since process_track closes only a
\* session it made itself.
C12_SharedSessionClosedOnce ==
    /\ closes <= 1
    /\ gen = "streaming" => (session = "open" /\ closes = 0)
    /\ (BatchExited /\ session # "none") => (session = "closed" /\ closes = 1)

\* C12 witness: the consumer left a batch in which a task had already returned
\* and other tasks were still running; the session was closed once.
C12_ClosedOnAbort ==
    /\ gen = "aborted"
    /\ closes = 1
    /\ completed_count > 0
    /\ InFlight > 0

\* C13: once an abandoned batch has exited and closed the shared session, its
\* outstanding track tasks are cancelled where they are suspended: none of
\* them takes a permit or moves on to a further request, so no position ever
\* gains a task again.
C13_OutstandingTasksCancelled ==
    [][(BatchExited /\ session = "closed") => \A p \in Positions : at'[p] <= at[p]]_vars

\* ------------------------------------------------------------ setup failure
\* An error line was yielded before the batch's session was opened.
SetupFailed == session = "none" /\ OfType("error") # <<>>

\* C14: when the setup of a batch fails (the request names no source, the
\* playlist cannot be fetched or its items cannot be parsed), exactly one
\* error line is yielded, it is the last line of the run, the generator has
\* ended, no track task was started and no update or done line is yielded.
C14_SetupFailureHalts ==
    SetupFailed =>
        /\ gen = "finished"
        /\ Len(OfType("error")) = 1
        /\ events[Len(events)].type = "error"
        /\ OfType("update") = <<>> /\ OfType("done") = <<>>
        /\ total = 0
        /\ \A p \in Positions : at[p] = 0

\* C14 witness: a playlist was fetched, parsing its items failed, and the run
\* ended with the error line behind the two progress lines.
C14_ParseFailed ==
    /\ SetupFailed
    /\ mode = "link"
    /\ Len(events) = 3
    /\ gen = "finished"

\* ------------------------------------------------------------------ percent
Updates == OfType("update")

\* C15: the k-th update line of a batch of N tracks carries
\* percent = round(k / N * 100), and the last one carries 100.
C15_PercentIsRounded ==
    /\ \A k \in 1..Len(Updates) : Updates[k].percent = PercentRounded(k, total)
    /\ Len(Updates) = total /\ total > 0 => Updates[total].percent = 100

\* C15 amended: the k-th update line of a batch of N tracks carries the
\* integer part of k / N * 100 (the value is cut off, not rounded), and the
\* last one carries 100.
C15_PercentIsTruncated ==
    /\ \A k \in 1..Len(Updates) :
          /\ Updates[k].percent * total <= 100 * k
          /\ 100 * k < (Updates[k].percent + 1) * total
    /\ Len(Updates) = total /\ total > 0 => Updates[total].percent = 100

\* C15 witness: a batch of three tracks has yielded its three update lines;
\* the second carries 66 and the third 100.
C15_TwoOfThree ==
    /\ total = 3
    /\ Len(Updates) = 3
    /\ Updates[2].percent = 66
    /\ Updates[3].percent = 100

MinorLabels == {"1A", "2A", "3A", "4A", "5A", "6A", "7A", "8A", "9A", "10A", "11A", "12A"}
MajorLabels == {"1B", "2B", "3B", "4B", "5B", "6B", "7B", "8B", "9B", "10B", "11B", "12B"}

\* C18: for every 12-bin nonnegative profile, the all-zero and every other
\* constant profile included, chroma_to_key returns one of the 24 Camelot
\* labels, and the labels of the 24 candidates are pairwise distinct.
C18_AlwaysCamelotLabel ==
    /\ fpc = "returned" => ret \in MinorLabels \cup MajorLabels
    /\ \A m, n \in 1..24 : KeyCandidates[m].label = KeyCandidates[n].label => m = n

C19_TempFileDeleted == rpc = "returned" => tmp # "exists"

====
